---- MODULE Spec2Model ----
(***************************************************************************)
(* Model of the privileged MacPorts packager                               *)
(* (Code/autopkgserver/portpackager.py, class PortPackager).               *)
(*                                                                         *)
(* A string is a sequence of one-character strings.  A session is one      *)
(* PortPackager object handling one request under one caller identity.     *)
(***************************************************************************)
EXTENDS Integers, Sequences, FiniteSets, TLC

(***************************************************************************)
(* Bounds of the model.                                                    *)
(***************************************************************************)
MaxNameLen == 2      \* longest enumerated port name
MaxVerLen == 3       \* longest enumerated short version string
MaxVariants == 2     \* longest enumerated variants list
MaxErrLen == 3       \* longest enumerated toolchain stderr

\* portpackager.py:107  len(self.request.version) > 40
MaxVersionLength == 40

\* A request is a mapping: keys is the set of the keys it has, and the field
\* of a key it does not have is the empty value and is never read.
Has(req, key) == key \in req.keys

(***************************************************************************)
(* Characters and the three compiled patterns (lines 45-47).               *)
(***************************************************************************)
LowerChars == {"a"}
UpperChars == {"A"}
DigitChars == {"1"}
NL == "\n"

\* re.I: matching ignores case, so a class [a-z] also accepts A-Z.
IsAlnum(c) == c \in LowerChars \cup UpperChars \cup DigitChars
IsNameChar(c) == IsAlnum(c) \/ c \in {".", "_", "-"}
IsDigit(c) == c \in DigitChars

Front(s) == SubSeq(s, 1, Len(s) - 1)
Tail2(s) == SubSeq(s, 2, Len(s))

\* Without re.MULTILINE, '$' matches at the end of the string and also just
\* before a newline that is the last character of the string.
DollarEnds(s) == {s} \cup (IF Len(s) > 0 /\ s[Len(s)] = NL THEN {Front(s)} ELSE {})

\* the pattern without its first class: ^[a-z0-9._\-]+
NameBody_AnyFirst(t) ==
    /\ Len(t) >= 1
    /\ \A i \in 1..Len(t) : t[i] \in {"a", "A", "1", ".", "_", "-"}

\* ^[a-z0-9][a-z0-9._\-]*   consumed against the whole of t
NameBody(t) ==
    /\ Len(t) >= 1
    /\ IsAlnum(t[1])
    /\ \A i \in 2..Len(t) : IsNameChar(t[i])

\* re_portname.search(s)
re_portname(s) == \E t \in DollarEnds(s) : NameBody(t)

\* re_variant.search(s): the same pattern text as re_portname
re_variant(s) == \E t \in DollarEnds(s) : NameBody(t)

\* ^@[0-9.]*[0-9_]*   consumed against the whole of t: a literal '@', then
\* a run of [0-9.], then a run of [0-9_].
VersionBody(t) ==
    /\ Len(t) >= 1
    /\ t[1] = "@"
    /\ \E k \in 1..Len(t) :
          /\ \A i \in 2..k : IsDigit(t[i]) \/ t[i] = "."
          /\ \A i \in (k + 1)..Len(t) : IsDigit(t[i]) \/ t[i] = "_"

\* re_version.search(s)
re_version(s) == \E t \in DollarEnds(s) : VersionBody(t)

\* str.split(sep) for a one-character separator: always at least one piece.
RECURSIVE SplitOn(_, _)
SplitOn(s, sep) ==
    IF \A i \in 1..Len(s) : s[i] # sep
    THEN <<s>>
    ELSE LET k == CHOOSE i \in 1..Len(s) :
                      s[i] = sep /\ \A j \in 1..(i - 1) : s[j] # sep
         IN  <<SubSeq(s, 1, k - 1)>> \o SplitOn(SubSeq(s, k + 1, Len(s)), sep)


IsSpace(c) == c \in {" ", NL, "\t"}

\* str.split() with no argument: the maximal runs of non-whitespace.
RECURSIVE SplitWS(_)
SplitWS(s) ==
    IF s = <<>> THEN <<>>
    ELSE IF IsSpace(s[1]) THEN SplitWS(Tail2(s))
    ELSE LET n == CHOOSE k \in 1..Len(s) :
                      /\ \A j \in 1..k : ~IsSpace(s[j])
                      /\ (k = Len(s) \/ IsSpace(s[k + 1]))
         IN  <<SubSeq(s, 1, n)>> \o SplitWS(SubSeq(s, n + 1, Len(s)))

\* " ".join(words)
RECURSIVE JoinSpace(_)
JoinSpace(words) ==
    IF words = <<>> THEN <<>>
    ELSE IF Len(words) = 1 THEN words[1]
    ELSE words[1] \o <<" ">> \o JoinSpace(Tail2(words))

\* the raw stderr, as str(err) alone would give it
NormalizeStderr_Raw(err) == err

\* " ".join(str(err).split())  (lines 148 and 190; str() of a str is that str)
NormalizeStderr(err) == JoinSpace(SplitWS(err))

(***************************************************************************)
(* Errors.  site is the source line of the raise statement.                *)
(***************************************************************************)
NoError == [kind |-> "none", msg |-> "", code |-> 0, detail |-> <<>>, site |-> 0]

Raise(kind, msg, code, detail, site) ==
    [kind |-> kind, msg |-> msg, code |-> code, detail |-> detail, site |-> site]

\* The module defines PortPackagerError only (lines 37-38); evaluating the
\* name PackagerError in a raise statement raises NameError instead.
ModuleNames == {"PortPackager", "PortPackagerError"}

RaiseNamed(cls, msg, code, detail, site) ==
    IF cls \in ModuleNames
    THEN Raise(cls, msg, code, detail, site)
    ELSE Raise("NameError", "name '" \o cls \o "' is not defined", 0, <<>>, site)

(***************************************************************************)
(* verify_dir_and_owner (lines 73-83).  info is what os.lstat reports for  *)
(* the path itself: kind in missing / symlink / dir / file, and its owner. *)
(***************************************************************************)
verify_dir_and_owner(path, info, uid) ==
    IF info.kind = "missing"
    THEN RaiseNamed("PackagerError", "Can't stat %s: %s", 0, path, 77)
    ELSE IF info.owner # uid
    THEN RaiseNamed("PackagerError", "%s isn't owned by %d", uid, path, 79)
    ELSE IF info.kind = "symlink"
    THEN RaiseNamed("PackagerError", "%s is a soft link", 0, path, 81)
    ELSE IF info.kind # "dir"
    THEN RaiseNamed("PackagerError", "%s is not a directory", 0, path, 83)
    ELSE NoError

\* lines 98-103: the first variant that does not match raises.
CheckVariants(req) ==
    IF ~Has(req, "variants") THEN NoError
    ELSE IF \E i \in 1..Len(req.variants) : ~re_variant(req.variants[i])
    THEN Raise("PortPackagerError", "Invalid package variant", 0, <<>>, 102)
    ELSE NoError

\* lines 105-115
CheckVersion(req) ==
    IF ~Has(req, "version") THEN NoError
    ELSE IF Len(req.version) > MaxVersionLength
    THEN Raise("PortPackagerError", "Version too long", 0, <<>>, 108)
    ELSE LET components == SplitOn(req.version, ".")
             bad == {i \in 1..Len(components) : ~re_version(components[i])}
         IN  IF Len(components) < 1
             THEN Raise("PortPackagerError", "Invalid version \"%s\"", 0,
                        req.version, 111)
             ELSE IF bad # {}
             THEN Raise("PortPackagerError", "Invalid version component \"%s\"", 0,
                        components[CHOOSE i \in bad : \A j \in bad : i <= j], 114)
             ELSE NoError

\* verify_request (lines 85-119): the checks in order, the first failure wins.
verify_request(req, info, uid) ==
    LET dirErr == verify_dir_and_owner(req.pkgdir, info, uid)
    IN  IF dirErr # NoError THEN dirErr
        ELSE IF ~re_portname(req.port)
        THEN Raise("PortPackagerError", "Invalid package name", 0, <<>>, 95)
        ELSE IF CheckVariants(req) # NoError THEN CheckVariants(req)
        ELSE CheckVersion(req)


(***************************************************************************)
(* The requests, callers and file-system states the sessions are run on.   *)
(***************************************************************************)
Strings(chars, n) == UNION {[1..k -> chars] : k \in 0..n}
Repeat(c, n) == [i \in 1..n |-> c]

PortChars == {"a", "A", "1", ".", "-", "_", "/", ";", " ", NL}
VersionChars == {"@", "1", ".", "_", "a", NL}
StderrChars == {"e", " ", NL}

Ports == Strings(PortChars, MaxNameLen)
\* versions that would read as an option or as a path
OptionLikeVersions == {<<"-", "1">>, <<"@", "-">>, <<"/">>, <<"@", "/", "1">>, <<"@", "1", "/">>}
\* short versions, and versions of 40 and 41 characters around the length cap
Versions ==
    Strings(VersionChars, MaxVerLen)
        \cup {<<"@">> \o Repeat("1", n) : n \in {MaxVersionLength - 1, MaxVersionLength}}
        \cup {Repeat("1", MaxVersionLength + 1)}
        \cup OptionLikeVersions
VariantNames == {<<"a">>, <<"-">>, <<"a", NL>>, <<"a", "/">>}
VariantLists == Strings(VariantNames, MaxVariants)
Stderrs == Strings(StderrChars, MaxErrLen)

TargetDir == <<"/", "o", "u", "t">>

CallerUid == 501
CallerGid == 20
OtherUid == 502

MkRequest(port, hasVersion, version, hasVariants, variants) ==
    [keys |-> {"port", "pkgdir"}
                \cup (IF hasVersion THEN {"version"} ELSE {})
                \cup (IF hasVariants THEN {"variants"} ELSE {}),
     port |-> port,
     version |-> IF hasVersion THEN version ELSE <<>>,
     variants |-> IF hasVariants THEN variants ELSE <<>>,
     pkgdir |-> TargetDir,
     uid |-> 0, gid |-> 0]

\* A request whose payload names an identity of its own: the keys "uid" and
\* "gid" next to the ones the packager reads.
WithIdentity(req, uid, gid) ==
    [req EXCEPT !.keys = @ \cup {"uid", "gid"}, !.uid = uid, !.gid = gid]

\* A few values of each field, good and bad, to combine with every value of
\* another field.
CorePorts == {<<"a">>, <<"1", "a">>, <<"-">>}
CoreVersions == {<<"@", "1">>, <<"1">>}
CoreVariantLists == {<<<<"a">>>>, <<<<"-">>>>}

CoreOptions ==
    {[hv |-> hv, v |-> v, hl |-> hl, l |-> l] :
        hv \in BOOLEAN, v \in CoreVersions, hl \in BOOLEAN, l \in CoreVariantLists}

CoreRequests ==
    {MkRequest(p, o.hv, o.v, o.hl, o.l) : p \in CorePorts, o \in CoreOptions}

Requests ==
    {MkRequest(p, o.hv, o.v, o.hl, o.l) : p \in Ports, o \in CoreOptions}
        \cup {MkRequest(p, TRUE, v, hl, l) :
                p \in CorePorts, v \in Versions, hl \in BOOLEAN, l \in CoreVariantLists}
        \cup {MkRequest(p, hv, v, TRUE, l) :
                p \in CorePorts, hv \in BOOLEAN, v \in CoreVersions, l \in VariantLists}

IdentityRequests ==
    {WithIdentity(MkRequest(p, FALSE, <<>>, FALSE, <<>>), u, g) :
        p \in CorePorts, u \in {0, CallerUid, OtherUid}, g \in {0, CallerGid}}

\* What os.lstat can report for the target directory.
DirInfos ==
    {[kind |-> "missing", owner |-> 0]}
        \cup {[kind |-> k, owner |-> o] :
                k \in {"symlink", "dir", "file"}, o \in {CallerUid, OtherUid}}


(***************************************************************************)
(* State.                                                                  *)
(*   sess  one record per session: the PortPackager object (req, uid,      *)
(*         gid), where package() stands (pc), what it raised (err) or      *)
(*         returned (result), and the history of the run (phases,          *)
(*         cleanups, verified, stderr)                                     *)
(*   fs    the target directory: what lstat reports, and the files in it   *)
(*   work  the toolchain's work directories: pairs <<port, file name>>     *)
(*   log   every child process and privileged file operation, in order    *)
(*   toolchain  the outcomes /opt/local/bin/port can have in this run      *)
(*   probe one call of find_work_path() on its own: the outcome of its     *)
(*         child process and what the call returned or raised              *)
(*   cli   the MacPortPackager processor: its env, the request it builds,  *)
(*         its socket, and where package() stands                          *)
(*   peer  the other end of the client's connection                        *)
(***************************************************************************)
VARIABLES sess, fs, work, log, toolchain, probe, cli, peer

vars == <<sess, fs, work, log, toolchain, probe, cli, peer>>

Sessions == {"s1", "s2"}

NoResult == <<>>

NewSession(req, uid, gid) ==
    [pc |-> "Connected", req |-> req, uid |-> uid, gid |-> gid,
     err |-> NoError, result |-> NoResult, phases |-> <<>>, cleanups |-> 0,
     verified |-> FALSE, stderr |-> <<>>, holds |-> FALSE]

Unused == [NewSession(MkRequest(<<>>, FALSE, <<>>, FALSE, <<>>), 0, 0)
              EXCEPT !.pc = "Unused"]

\* cmd is the fixed words of the call, args its request-derived arguments, each
\* a list element of its own; rc is the exit code, or -1 when nothing exited.
Logged(s, cmd, args, rc) ==
    Append(log, [sid |-> s, cmd |-> cmd, args |-> args, rc |-> rc])

\* The outcomes of a child process: Popen raising OSError, or an exit code
\* and the captured stderr.
ExitCodes == {0, 1}
ProcOutcomes ==
    {[oserror |-> TRUE, rc |-> 2, err |-> <<>>]}
        \cup {[oserror |-> FALSE, rc |-> c, err |-> e] : c \in ExitCodes, e \in Stderrs}

\* a toolchain stub: the child cannot be started, exits 0, or exits 1
StubOutcomes ==
    {[oserror |-> TRUE, rc |-> 2, err |-> <<>>],
     [oserror |-> FALSE, rc |-> 0, err |-> <<>>],
     [oserror |-> FALSE, rc |-> 1, err |-> <<"e", "\n">>]}

\* probe when find_work_path() is not under test
IdleProbe == [pc |-> "idle"]

\* The processor's env: the recipe's directories, as autopkg sets them.
CacheDir == <<"/", "c">>
RecipeDir == <<"/", "r">>
ParentRecipes == {<<"/", "p", "/", "x">>, <<"/", "q", "/", "x">>}

\* the keys of a request, character by character
K_port == <<"p", "o", "r", "t">>
K_pkgdir == <<"p", "k", "g", "d", "i", "r">>
K_dir == <<"d", "i", "r">>

\* cli when no processor runs
IdleClient == [pc |-> "Idle"]

\* peer when there is no client
IdlePeer == [pc |-> "Idle"]

\* the processor as package() finds it, before env and request are filled in
NewClient ==
    [pc |-> "Start",
     env |-> [summary |-> "none", pkg_path |-> <<>>, new_package_request |-> FALSE,
              parents |-> {}],
     req |-> [k \in {K_port} |-> <<>>], req0 |-> [k \in {K_port} |-> <<>>],
     exists |-> {}, sock |-> "unset", sent |-> "none", wire |-> {},
     reply |-> <<>>, value |-> <<>>, err |-> NoError,
     disconnects |-> 0, reached |-> FALSE, read |-> FALSE, okReply |-> FALSE,
     stale0 |-> FALSE]

\* the other end before the client connects
NewPeer == [pc |-> "Listening", mode |-> "eof", answers |-> {}, reply |-> <<>>]

\* One request against any state of the target directory: any of Requests
\* with the toolchain stub, or one of CoreRequests with every outcome of the
\* toolchain.
Init ==
    /\ \E r \in Requests \cup IdentityRequests, full \in BOOLEAN :
          /\ full => r \in CoreRequests
          /\ toolchain = IF full THEN ProcOutcomes ELSE StubOutcomes
          /\ sess = [s \in Sessions |->
                       IF s = "s1" THEN NewSession(r, CallerUid, CallerGid) ELSE Unused]
    /\ \E info \in DirInfos : fs = [info |-> info, files |-> {}]
    /\ work = {}
    /\ log = <<>>
    /\ probe = IdleProbe
    /\ cli = IdleClient
    /\ peer = IdlePeer

(***************************************************************************)
(* The session server around package(): builds of one port name are        *)
(* serialized by a lock held from before package() until it has ended.     *)
(***************************************************************************)
\* no serialization: a session starts whatever the others hold
LockFree_Never(s) == TRUE

LockFree(s) ==
    \A t \in Sessions \ {s} : sess[t].holds => sess[t].req.port # sess[s].req.port

StartSession(s) ==
    /\ sess[s].pc = "Connected"
    /\ LockFree(s)
    /\ sess' = [sess EXCEPT ![s].pc = "Validating", ![s].holds = TRUE,
                            ![s].phases = <<"Validating">>]
    /\ UNCHANGED <<fs, work, log, toolchain, probe, cli, peer>>

EndSession(s) ==
    /\ sess[s].pc = "Ended"
    /\ sess' = [sess EXCEPT ![s].pc = "Closed", ![s].holds = FALSE]
    /\ UNCHANGED <<fs, work, log, toolchain, probe, cli, peer>>

(***************************************************************************)
(* package() (lines 64-71): verify_request(), then create_pkg(), and       *)
(* cleanup() in the finally clause whatever was raised.                    *)
(***************************************************************************)
\* package() without the try: create_pkg() runs whatever verify_request() raised
AfterVerify_Unchecked(e) == "Cleaning"

\* where package() goes after verify_request() returned or raised e
AfterVerify(e) == IF e = NoError THEN "Cleaning" ELSE "Cleanup"

\* the identity a packager reads from the request payload when it holds one
CallerIdentity_FromPayload(s) ==
    IF Has(sess[s].req, "uid")
    THEN [uid |-> sess[s].req.uid, gid |-> sess[s].req.gid]
    ELSE [uid |-> sess[s].uid, gid |-> sess[s].gid]

\* self.uid and self.gid: set by the constructor (lines 60-61) and assigned
\* nowhere else; the only identity lines 90 and 195 read.
CallerIdentity(s) == [uid |-> sess[s].uid, gid |-> sess[s].gid]

Fail(s, e, raw) ==
    [sess EXCEPT ![s].pc = "Cleanup", ![s].err = e, ![s].stderr = raw,
                 ![s].phases = Append(@, "Failed")]

VerifyRequest(s) ==
    /\ sess[s].pc = "Validating"
    /\ LET e == verify_request(sess[s].req, fs.info, CallerIdentity(s).uid)
           next == AfterVerify(e)
       IN  sess' = [sess EXCEPT ![s].pc = next, ![s].err = e,
                                ![s].verified = (e = NoError),
                                ![s].phases =
                                    Append(@, IF e = NoError THEN "Cleaning" ELSE "Failed")]
    /\ UNCHANGED <<fs, work, log, toolchain, probe, cli, peer>>

\* clean_port without the test of the return code
clean_port_IgnoringExit(oc) ==
    IF oc.oserror
    THEN Raise("PortPackagerError", "Port clean failed with error code %d: %s",
               oc.rc, <<>>, 142)
    ELSE NoError

\* clean_port (lines 130-148): what it raises for a child-process outcome
clean_port(oc) ==
    IF oc.oserror
    THEN Raise("PortPackagerError", "Port clean failed with error code %d: %s",
               oc.rc, <<>>, 142)
    ELSE IF oc.rc # 0
    THEN Raise("PortPackagerError", "Port clean failed with exit code %d: %s",
               oc.rc, NormalizeStderr(oc.err), 146)
    ELSE NoError

\* lines 131-134: /opt/local/bin/port clean --all <port>
CleanArgs(req) == <<req.port>>

\* port clean --all <port>: a clean that exits 0 has removed the work directory
CleanPort(s) ==
    /\ sess[s].pc = "Cleaning"
    /\ \E oc \in toolchain :
          LET e == clean_port(oc)
          IN  /\ log' = Logged(s, "clean --all", CleanArgs(sess[s].req),
                               IF oc.oserror THEN -1 ELSE oc.rc)
              /\ IF e = NoError
                 THEN /\ sess' = [sess EXCEPT ![s].pc = "Building",
                                              ![s].phases = Append(@, "Building")]
                      /\ work' = {w \in work : w[1] # sess[s].req.port}
                 ELSE /\ sess' = Fail(s, e, oc.err)
                      /\ work' = work
    /\ UNCHANGED <<fs, toolchain, probe, cli, peer>>


\* lines 169-175: /opt/local/bin/port mpkg <port> [version] [variant...]
MpkgArgs(req) ==
    <<req.port>>
        \o (IF Has(req, "version") THEN <<req.version>> ELSE <<>>)
        \o (IF Has(req, "variants") THEN req.variants ELSE <<>>)

\* lines 178-190: what create_pkg raises for the outcome of the mpkg child
run_mpkg(oc) ==
    IF oc.oserror
    THEN Raise("PortPackagerError",
               "Port package execution failed with error code %d: %s", oc.rc, <<>>, 184)
    ELSE IF oc.rc # 0
    THEN Raise("PortPackagerError", "Port package with exit code %d: %s",
               oc.rc, NormalizeStderr(oc.err), 188)
    ELSE NoError

MpkgSuffix == <<".", "m", "p", "k", "g">>
BuiltName(port) == port \o <<"-", "1">> \o MpkgSuffix
BuildLog == <<"l", "o", "g">>

\* What the toolchain may leave in the work directory of a port: the built
\* package or nothing after exit 0, a log or nothing after a failure.
Leftovers(port, ok) ==
    IF ok THEN {{<<port, BuiltName(port)>>}, {}} ELSE {{<<port, BuildLog>>}, {}}

RunMpkg(s) ==
    /\ sess[s].pc = "Building"
    /\ \E oc \in toolchain :
          LET e == run_mpkg(oc)
          IN  /\ log' = Logged(s, "mpkg", MpkgArgs(sess[s].req),
                               IF oc.oserror THEN -1 ELSE oc.rc)
              /\ \E left \in Leftovers(sess[s].req.port, ~oc.oserror /\ oc.rc = 0) :
                    work' = IF oc.oserror THEN work ELSE work \cup left
              /\ sess' = IF e = NoError
                         THEN [sess EXCEPT ![s].pc = "Locating",
                                           ![s].phases = Append(@, "Locating")]
                         ELSE Fail(s, e, oc.err)
    /\ UNCHANGED <<fs, toolchain, probe, cli, peer>>

(***************************************************************************)
(* The end of create_pkg (lines 192-197).                                  *)
(***************************************************************************)
\* the methods class PortPackager defines (lines 49-202)
ClassMethods ==
    {"__init__", "package", "verify_dir_and_owner", "verify_request", "cmd_output",
     "clean_port", "find_work_path", "find_mpkg_name", "create_pkg", "cleanup"}

\* fnmatch.fnmatch(file, port + '-*.mpkg') (line 161)
FnmatchMpkg(file, port) ==
    LET prefix == port \o <<"-">>
    IN  /\ Len(file) >= Len(prefix) + Len(MpkgSuffix)
        /\ SubSeq(file, 1, Len(prefix)) = prefix
        /\ SubSeq(file, Len(file) - Len(MpkgSuffix) + 1, Len(file)) = MpkgSuffix

\* what `port work <port>` may print: nothing, or the work directory
WorkOutputs == {"empty", "path"}

\* Lines 192-197 when self.find_mpkg_path resolves.  out1 and out2 are what the
\* two `port work` children print, pick the first match of the directory
\* listing (any of the matches: the listing order is not specified), renameOk
\* and chownOk whether os.rename and os.chown succeed.  The result is what is
\* raised, the path returned, and the file-system and log after it.
HandoffSteps(s, out1, pick, out2, renameOk, chownOk) ==
    LET req == sess[s].req
        matches == {w[2] : w \in {x \in work : x[1] = req.port /\ FnmatchMpkg(x[2], req.port)}}
        log1 == Logged(s, "work", <<req.port>>, 0)
        pkgpath == req.pkgdir \o <<"/">> \o pick
        log2 == Append(log1, [sid |-> s, cmd |-> "work", args |-> <<req.port>>, rc |-> 0])
        log3 == Append(log2, [sid |-> s, cmd |-> "rename", args |-> <<pkgpath>>, rc |-> 0])
        log4 == Append(log3, [sid |-> s, cmd |-> "chown", args |-> <<pkgpath>>, rc |-> 0])
        moved == [fs EXCEPT !.files = @ \cup {[name |-> pick, uid |-> 0, gid |-> 0]}]
        owned == [fs EXCEPT !.files =
                      {f \in @ : f.name # pick}
                          \cup {[name |-> pick, uid |-> CallerIdentity(s).uid,
                                  gid |-> CallerIdentity(s).gid]}]
        out(e, path, f, w, l) ==
            [err |-> e, result |-> path, fs |-> f, work |-> w, log |-> l,
             located |-> (out1 # "empty" /\ matches # {})]
    IN  IF out1 = "empty"
        THEN out(Raise("IndexError", "list index out of range", 0, <<>>, 156),
                 NoResult, fs, work, log1)
        ELSE IF matches = {}
        THEN out(Raise("TypeError", "cannot concatenate 'str' and 'NoneType' objects",
                       0, <<>>, 193), NoResult, fs, work, log1)
        ELSE IF out2 = "empty"
        THEN out(Raise("IndexError", "list index out of range", 0, <<>>, 156),
                 NoResult, fs, work, log2)
        ELSE IF ~renameOk
        THEN out(Raise("OSError", "rename", 0, <<>>, 194), NoResult, fs, work, log2)
        ELSE IF ~chownOk
        THEN out(Raise("OSError", "chown", 0, <<>>, 195), NoResult, moved,
                 work \ {<<req.port, pick>>}, log3)
        ELSE out(NoError, pkgpath, owned, work \ {<<req.port, pick>>}, log4)

\* Line 192 calls self.find_mpkg_path(), and the class defines find_mpkg_name:
\* the attribute lookup raises AttributeError before anything is located.
create_pkg_tail(s, out1, pick, out2, renameOk, chownOk) ==
    IF "find_mpkg_path" \in ClassMethods
    THEN HandoffSteps(s, out1, pick, out2, renameOk, chownOk)
    ELSE [err |-> Raise("AttributeError",
                        "'PortPackager' object has no attribute 'find_mpkg_path'",
                        0, <<>>, 192),
          result |-> NoResult, fs |-> fs, work |-> work, log |-> log,
          located |-> FALSE]

Handoff(s) ==
    /\ sess[s].pc = "Locating"
    /\ \E out1 \in WorkOutputs, out2 \in WorkOutputs, renameOk \in BOOLEAN,
          chownOk \in BOOLEAN,
          pick \in {w[2] : w \in {x \in work : x[1] = sess[s].req.port}} \cup {<<>>} :
          LET r == create_pkg_tail(s, out1, pick, out2, renameOk, chownOk)
          IN  /\ pick = <<>> \/ FnmatchMpkg(pick, sess[s].req.port)
              /\ sess' = [sess EXCEPT
                            ![s].pc = "Cleanup",
                            ![s].err = r.err,
                            ![s].result = r.result,
                            ![s].phases =
                                @ \o (IF r.located THEN <<"HandingOff">> ELSE <<>>)
                                  \o (IF r.err = NoError THEN <<"Done">>
                                                         ELSE <<"Failed">>)]
              /\ fs' = r.fs
              /\ work' = r.work
              /\ log' = r.log
    /\ UNCHANGED <<toolchain, probe, cli, peer>>

\* cleanup (lines 199-202): nothing; the clean_port call is commented out.
Cleanup(s) ==
    /\ sess[s].pc = "Cleanup"
    /\ sess' = [sess EXCEPT ![s].pc = "Ended", ![s].cleanups = @ + 1]
    /\ UNCHANGED <<fs, work, log, toolchain, probe, cli, peer>>

Next ==
    \E s \in Sessions :
        \/ StartSession(s)
        \/ VerifyRequest(s)
        \/ CleanPort(s)
        \/ RunMpkg(s)
        \/ Handoff(s)
        \/ Cleanup(s)
        \/ EndSession(s)

Spec == Init /\ [][Next]_vars


(***************************************************************************)
(* Two sessions at once, each for one of two port names, against a target  *)
(* directory that passes the directory check.                              *)
(***************************************************************************)
ConcPorts == {<<"a">>, <<"1", "a">>}

InitConc ==
    /\ \E p1 \in ConcPorts, p2 \in ConcPorts :
          sess = [s \in Sessions |->
                     NewSession(MkRequest(IF s = "s1" THEN p1 ELSE p2,
                                          FALSE, <<>>, FALSE, <<>>),
                                CallerUid, CallerGid)]
    /\ fs = [info |-> [kind |-> "dir", owner |-> CallerUid], files |-> {}]
    /\ work = {}
    /\ log = <<>>
    /\ toolchain = StubOutcomes
    /\ probe = IdleProbe
    /\ cli = IdleClient
    /\ peer = IdlePeer

SpecConc == InitConc /\ [][Next]_vars

(***************************************************************************)
(* The caller beside a running build.  The target directory is the         *)
(* caller's: between verify_request() and the end of create_pkg() they can *)
(* replace it by anything os.lstat can report.                             *)
(***************************************************************************)
CallerChangesDir ==
    /\ \E s \in Sessions : sess[s].pc \in {"Cleaning", "Building", "Locating"}
    /\ \E info \in DirInfos \ {fs.info} : fs' = [fs EXCEPT !.info = info]
    /\ UNCHANGED <<sess, work, log, toolchain, probe, cli, peer>>

InitRace ==
    /\ \E p \in CorePorts :
          sess = [s \in Sessions |->
                     IF s = "s1"
                     THEN NewSession(MkRequest(p, FALSE, <<>>, FALSE, <<>>),
                                     CallerUid, CallerGid)
                     ELSE Unused]
    /\ \E info \in DirInfos : fs = [info |-> info, files |-> {}]
    /\ work = {}
    /\ log = <<>>
    /\ toolchain = StubOutcomes
    /\ probe = IdleProbe
    /\ cli = IdleClient
    /\ peer = IdlePeer

NextRace == Next \/ CallerChangesDir

SpecRace == InitRace /\ [][NextRace]_vars

(***************************************************************************)
(* find_work_path() (lines 150-156) called on its own, for every outcome   *)
(* of its `port work` child.                                               *)
(***************************************************************************)
MaxOutLen == 3

WorkChars == {"/", "w", "\n"}

\* what the child of cmd_output can do: Popen raising OSError, or an exit
\* code and the captured stdout
WorkOutcomes ==
    {[oserror |-> TRUE, rc |-> 2, out |-> <<>>]}
        \cup {[oserror |-> FALSE, rc |-> c, out |-> o] :
                 c \in ExitCodes, o \in Strings(WorkChars, MaxOutLen)}

\* str.splitlines(): the pieces between newlines, without an empty last piece
SplitLines(out) ==
    LET pieces == SplitOn(out, "\n")
    IN  IF pieces[Len(pieces)] = <<>> THEN Front(pieces) ELSE pieces

\* cmd_output (lines 121-128) hands back (out, err) and never looks at the
\* return code; it has no try around Popen.  find_work_path returns the first
\* line of out.
find_work_path(oc) ==
    IF oc.oserror
    THEN [err |-> Raise("OSError", "Popen", oc.rc, <<>>, 123), value |-> <<>>]
    ELSE IF Len(SplitLines(oc.out)) = 0
    THEN [err |-> Raise("IndexError", "list index out of range", 0, <<>>, 156),
          value |-> <<>>]
    ELSE [err |-> NoError, value |-> SplitLines(oc.out)[1]]

FindWorkPath ==
    /\ probe.pc = "call"
    /\ LET r == find_work_path(probe.oc)
       IN  probe' = [probe EXCEPT !.pc = "done", !.err = r.err, !.value = r.value]
    /\ UNCHANGED <<sess, fs, work, log, toolchain, cli, peer>>

InitWork ==
    /\ sess = [s \in Sessions |-> Unused]
    /\ fs = [info |-> [kind |-> "dir", owner |-> CallerUid], files |-> {}]
    /\ work = {}
    /\ log = <<>>
    /\ toolchain = StubOutcomes
    /\ \E oc \in WorkOutcomes :
          probe = [pc |-> "call", oc |-> oc, err |-> NoError, value |-> <<>>]
    /\ cli = IdleClient
    /\ peer = IdlePeer

NextWork == FindWorkPath

SpecWork == InitWork /\ [][NextWork]_vars

(***************************************************************************)
(* The client: processor MacPortPackager                                   *)
(* (src/Code/autopkglib/MacPortPackager.py).  package() prepares the       *)
(* request (lines 77-89), connects, sends, reads the reply until the peer  *)
(* closes, disconnects in the finally clause, and stores the result.       *)
(***************************************************************************)
MaxReplyLen == 3

\* k in hay for two strings: a substring test
IsSubstring(k, hay) ==
    \E i \in 0..(Len(hay) - Len(k)) : SubSeq(hay, i + 1, i + Len(k)) = k

\* line 86, `key in ("pkgdir")`: the parentheses make no tuple, the right-hand
\* side is the string "pkgdir"
IsPathKey(k) == IsSubstring(k, K_pkgdir)

\* value.startswith("/")
IsAbsolute(p) == p # <<>> /\ p[1] = "/"

\* os.path.dirname
Dirname(p) ==
    LET slashes == {i \in 1..Len(p) : p[i] = "/"}
    IN  IF slashes = {} THEN <<>>
        ELSE LET k == CHOOSE i \in slashes : \A j \in slashes : j <= i
             IN  IF k = 1 THEN <<"/">> ELSE SubSeq(p, 1, k - 1)

\* os.path.join of two paths
Join(dir, rel) ==
    IF IsAbsolute(rel) THEN rel
    ELSE IF dir = <<>> \/ dir[Len(dir)] = "/" THEN dir \o rel
    ELSE dir \o <<"/">> \o rel

\* sep.join(parts)
RECURSIVE JoinWith(_, _)
JoinWith(parts, sep) ==
    IF parts = <<>> THEN <<>>
    ELSE IF Len(parts) = 1 THEN parts[1]
    ELSE parts[1] \o sep \o JoinWith(Tail2(parts), sep)

\* os.path.normpath for paths without "." and ".." components: repeated and
\* trailing slashes go
Normpath(p) ==
    LET comps == SelectSeq(SplitOn(p, "/"), LAMBDA c : c # <<>>)
        body == JoinWith(comps, <<"/">>)
    IN  IF IsAbsolute(p) THEN <<"/">> \o body
        ELSE IF body = <<>> THEN <<".">>
        ELSE body

\* os.path.exists against the directories of the client's file system
Exists(exists, p) == Normpath(p) \in exists

\* list(set(...)) of line 60-62: the directories in any order
Perms(S) ==
    {q \in [1..Cardinality(S) -> S] : \A a \in S : \E i \in 1..Cardinality(S) : q[i] = a}

\* lines 56-63
SearchDirs(env, order) ==
    <<CacheDir, RecipeDir>> \o (IF env.parents # {} THEN order ELSE <<>>)

\* find_path_for_relpath (lines 50-70)
find_path_for_relpath(exists, dirs, relpath) ==
    LET hits == {i \in 1..Len(dirs) : Exists(exists, Join(dirs[i], relpath))}
    IN  IF hits = {}
        THEN [err |-> Raise("ProcessorError", "Can't find %s", 0, relpath, 70),
              value |-> <<>>]
        ELSE LET first == CHOOSE i \in hits : \A j \in hits : i <= j
             IN  [err |-> NoError, value |-> Normpath(Join(dirs[first], relpath))]

\* package() that leaves the summary of an earlier run in env
ClearSummary_Keep(env) == env

\* lines 77-78
ClearSummary(env) == [env EXCEPT !.summary = "none"]

\* lines 81-82
WithDefaultPkgdir(req) ==
    IF K_pkgdir \in DOMAIN req THEN req
    ELSE [k \in DOMAIN req \cup {K_pkgdir} |-> IF k = K_pkgdir THEN CacheDir ELSE req[k]]

\* lines 85-87: the keys whose value is searched for
NeedsResolving(req) ==
    {k \in DOMAIN req : IsPathKey(k) /\ req[k] # <<>> /\ ~IsAbsolute(req[k])}

\* Lines 77-89.  request.items() has no specified order: when a key cannot be
\* resolved, any of the resolvable ones may have been rewritten before it.
Prepare ==
    /\ cli.pc = "Start"
    /\ \E order \in Perms({Dirname(r) : r \in cli.env.parents}) :
          LET env1 == ClearSummary(cli.env)
              req1 == WithDefaultPkgdir(cli.req)
              dirs == SearchDirs(env1, order)
              todo == NeedsResolving(req1)
              found(k) == find_path_for_relpath(cli.exists, dirs, req1[k])
              failing == {k \in todo : found(k).err # NoError}
              rewritten(ks) ==
                  [k \in DOMAIN req1 |-> IF k \in ks THEN found(k).value ELSE req1[k]]
          IN  IF failing = {}
              THEN cli' = [cli EXCEPT !.pc = "Connecting", !.env = env1,
                                      !.req = rewritten(todo)]
              ELSE \E k \in failing, done \in SUBSET (todo \ failing) :
                      cli' = [cli EXCEPT !.pc = "Raised", !.env = env1,
                                         !.req = rewritten(done),
                                         !.err = found(k).err]
    /\ UNCHANGED <<sess, fs, work, log, toolchain, probe, peer>>

\* socket.socket() fails, socket.connect() fails, or the connection stands
ConnectOutcomes == {"socket_error", "connect_error", "ok"}

\* connect (lines 112-121)
connect(oc) ==
    IF oc = "ok" THEN NoError
    ELSE Raise("ProcessorError", "Couldn't connect to autopkgmacports: %s", 0, <<>>, 120)

Connect ==
    /\ cli.pc = "Connecting"
    /\ \E oc \in ConnectOutcomes :
          /\ cli' = [cli EXCEPT !.reached = TRUE,
                                !.sock = IF oc = "socket_error" THEN @ ELSE "open",
                                !.err = connect(oc),
                                !.pc = IF oc = "ok" THEN "Sending" ELSE "Disconnecting"]
          /\ peer' = IF oc = "ok" THEN [peer EXCEPT !.pc = "Receiving"] ELSE peer
    /\ UNCHANGED <<sess, fs, work, log, toolchain, probe>>

\* FoundationPlist.writePlistToString(request): the dictionary, entry by entry
WritePlist(req) == {<<k, req[k]>> : k \in DOMAIN req}

\* socket.send: everything is written, a part is (the return value of send is
\* not read), or socket.error is raised
SendOutcomes == {"all", "part", "error"}

\* Lines 99 and 125.  The socket stays open in both directions: send_request
\* goes on to read (line 127) without shutdown() or close().
Send ==
    /\ cli.pc = "Sending"
    /\ \E oc \in SendOutcomes :
          cli' = [cli EXCEPT
                    !.env.new_package_request = TRUE,
                    !.sent = IF oc = "error" THEN "none" ELSE oc,
                    !.wire = IF oc = "error" THEN {} ELSE WritePlist(cli.req),
                    !.err = IF oc = "error"
                            THEN Raise("socket.error", "send", 0, <<>>, 125)
                            ELSE NoError,
                    !.pc = IF oc = "error" THEN "Disconnecting" ELSE "Reading"]
    /\ UNCHANGED <<sess, fs, work, log, toolchain, probe, peer>>

\* The reply, in tokens: the two prefixes, a character of text, a newline.
ReplyTokens == {"OK:", "ERROR:", "m", NL}
Replies == Strings(ReplyTokens, MaxReplyLen)
StubReplies == {<<"OK:", "m", NL>>, <<"ERROR:", "m", NL>>, <<>>}

\* str.rstrip()
RECURSIVE RStrip(_)
RStrip(s) == IF s # <<>> /\ IsSpace(s[Len(s)]) THEN RStrip(Front(s)) ELSE s

\* str.replace(tok, "")
Without(s, tok) == SelectSeq(s, LAMBDA c : c # tok)

NoReplyMessage == <<"No reply from server (crash?), check system logs">>

\* send_request after the read (lines 129-136): the path returned or the
\* ProcessorError raised, its message in detail
send_request(reply) ==
    IF reply # <<>> /\ reply[1] = "OK:"
    THEN [err |-> NoError, value |-> RStrip(Without(reply, "OK:"))]
    ELSE LET split == SplitOn(RStrip(reply), NL)
             errors == IF Len(split) = 0 THEN <<<<"ERROR:">> \o NoReplyMessage>>
                       ELSE split
             texts == [i \in 1..Len(errors) |-> Without(errors[i], "ERROR:")]
         IN  [err |-> Raise("ProcessorError", "%s", 0, JoinWith(texts, <<",", " ">>), 135),
              value |-> <<>>]

\* fileref.read() (lines 126-127) returns when the peer has closed; leaving
\* the with block closes the descriptor of the socket.
ReadReply ==
    /\ cli.pc = "Reading"
    /\ peer.pc = "Closed"
    /\ LET r == send_request(peer.reply)
       IN  cli' = [cli EXCEPT !.reply = peer.reply, !.read = TRUE, !.sock = "closed",
                              !.err = r.err, !.value = r.value,
                              !.okReply = (r.err = NoError),
                              !.pc = "Disconnecting"]
    /\ UNCHANGED <<sess, fs, work, log, toolchain, probe, peer>>

\* disconnect (lines 138-140): self.socket exists only once connect() has
\* created it
disconnect(sock) ==
    IF sock = "unset"
    THEN Raise("AttributeError", "'MacPortPackager' object has no attribute 'socket'",
               0, <<>>, 140)
    ELSE NoError

\* The finally clause (lines 98-100) and, when nothing was raised, lines
\* 103-110.  An exception of disconnect() replaces the one in flight.
Disconnect ==
    /\ cli.pc = "Disconnecting"
    /\ LET d == disconnect(cli.sock)
           e == IF d # NoError THEN d ELSE cli.err
       IN  cli' = [cli EXCEPT
                     !.disconnects = @ + 1,
                     !.sock = IF @ = "unset" THEN @ ELSE "closed",
                     !.err = e,
                     !.pc = IF e = NoError THEN "Returned" ELSE "Raised",
                     !.env = IF e = NoError
                             THEN [@ EXCEPT !.pkg_path = cli.value, !.summary = "new"]
                             ELSE @]
    /\ UNCHANGED <<sess, fs, work, log, toolchain, probe, peer>>

(***************************************************************************)
(* The other end of the connection.  It reads the request and answers with *)
(* one reply and closes.  A peer of mode "eof" takes the request as        *)
(* complete at end-of-stream; one of mode "document" when the whole        *)
(* document has arrived.  It may also die at any time, which closes the    *)
(* connection with nothing written.                                        *)
(***************************************************************************)
RequestEnded ==
    IF cli.sock = "closed" THEN TRUE
    ELSE peer.mode = "document" /\ cli.sent = "all"

PeerReceive ==
    /\ peer.pc = "Receiving"
    /\ RequestEnded
    /\ peer' = [peer EXCEPT !.pc = "Handling"]
    /\ UNCHANGED <<sess, fs, work, log, toolchain, probe, cli>>

PeerReply ==
    /\ peer.pc = "Handling"
    /\ \E r \in peer.answers : peer' = [peer EXCEPT !.pc = "Closed", !.reply = r]
    /\ UNCHANGED <<sess, fs, work, log, toolchain, probe, cli>>

PeerCrash ==
    /\ peer.pc \in {"Receiving", "Handling"}
    /\ peer' = [peer EXCEPT !.pc = "Closed", !.reply = <<>>]
    /\ UNCHANGED <<sess, fs, work, log, toolchain, probe, cli>>

\* The requests of a recipe: pkgdir absent, empty, relative or absolute, and
\* possibly a key of the recipe's own.
PkgdirValues == {<<>>, <<"o">>, <<"o", "/">>, <<"/", "o">>}
Candidates ==
    {<<"/", "c", "/", "o">>, <<"/", "r", "/", "o">>,
     <<"/", "p", "/", "o">>, <<"/", "q", "/", "o">>}

ClientRequest(hasDir, dir, extra) ==
    [k \in {K_port} \cup (IF hasDir THEN {K_pkgdir} ELSE {})
                    \cup (IF extra THEN {K_dir} ELSE {}) |->
        IF k = K_port THEN <<"a">> ELSE IF k = K_pkgdir THEN dir ELSE <<"o">>]

\* One call of package(): any request and env with a peer of three answers, or
\* a plain request with a peer of every answer.
InitClient ==
    /\ sess = [s \in Sessions |-> Unused]
    /\ fs = [info |-> [kind |-> "dir", owner |-> CallerUid], files |-> {}]
    /\ work = {}
    /\ log = <<>>
    /\ toolchain = StubOutcomes
    /\ probe = IdleProbe
    /\ \E hasDir \in BOOLEAN, dir \in PkgdirValues, extra \in BOOLEAN,
          exists \in SUBSET Candidates, parents \in {{}, ParentRecipes},
          stale \in BOOLEAN, full \in BOOLEAN, mode \in {"eof", "document"} :
          /\ full => (hasDir /\ IsAbsolute(dir) /\ ~extra /\ exists = {} /\ parents = {})
          /\ cli = [NewClient EXCEPT
                      !.env = [@ EXCEPT !.summary = IF stale THEN "stale" ELSE "none",
                                        !.parents = parents],
                      !.req = ClientRequest(hasDir, dir, extra),
                      !.req0 = ClientRequest(hasDir, dir, extra),
                      !.exists = exists,
                      !.stale0 = stale]
          /\ peer = [NewPeer EXCEPT !.mode = mode,
                                     !.answers = IF full THEN Replies ELSE StubReplies]

NextClient ==
    \/ Prepare
    \/ Connect
    \/ Send
    \/ PeerReceive
    \/ PeerReply
    \/ PeerCrash
    \/ ReadReply
    \/ Disconnect

SpecClient == InitClient /\ [][NextClient]_vars

(***************************************************************************)
(* Vocabulary of the properties.                                           *)
(***************************************************************************)
Started(s) == sess[s].pc \notin {"Unused", "Connected"}
Validated(s) == sess[s].pc \notin {"Unused", "Connected", "Validating"}
Ended(s) == sess[s].pc \in {"Ended", "Closed"}
CallsOf(s) == SelectSeq(log, LAMBDA e : e.sid = s)
DirOk(s) == verify_dir_and_owner(sess[s].req.pkgdir, fs.info, sess[s].uid) = NoError

\* An identifier as the specification words it: an alphanumeric character,
\* then alphanumerics, dots, underscores and hyphens, and nothing else.
IsIdentifier(p) ==
    /\ Len(p) >= 1
    /\ p[1] \in {"a", "A", "1"}
    /\ \A i \in 1..Len(p) : p[i] \in {"a", "A", "1", ".", "_", "-"}

(***************************************************************************)
(* C1.  Nothing privileged happens for a request that verify_request()     *)
(* refuses: a session whose request fails a check (target directory, port  *)
(* name, a variant, the version) spawns no child process and renames or    *)
(* chowns nothing, and it ends with an error, no path, and the target      *)
(* directory as it was.                                                    *)
(***************************************************************************)
FailsVerification(s) ==
    verify_request(sess[s].req, fs.info, sess[s].uid) # NoError

C1_NoActionUnlessVerified ==
    \A s \in Sessions :
        /\ CallsOf(s) # <<>> => sess[s].verified /\ ~FailsVerification(s)
        /\ (Started(s) /\ FailsVerification(s)) =>
              /\ CallsOf(s) = <<>>
              /\ fs.files = {}
              /\ sess[s].result = NoResult
              /\ Ended(s) => sess[s].err # NoError

\* a refused request has ended, with nothing spawned
C1_Witness ==
    \E s \in Sessions :
        /\ Ended(s)
        /\ FailsVerification(s)
        /\ sess[s].err.msg = "Invalid package name"
        /\ log = <<>>

(***************************************************************************)
(* C2.  Every port name that is not an identifier (it starts with a        *)
(* non-alphanumeric character, or holds a character other than             *)
(* alphanumerics, dot, underscore and hyphen, a newline included) is       *)
(* rejected with "Invalid package name".                                   *)
(***************************************************************************)
C2_BadNameRejected ==
    \A s \in Sessions :
        (Validated(s) /\ DirOk(s) /\ ~IsIdentifier(sess[s].req.port)) =>
            /\ sess[s].err.kind = "PortPackagerError"
            /\ sess[s].err.msg = "Invalid package name"

(***************************************************************************)
(* C3.  A target directory that is missing, a symbolic link, not a         *)
(* directory or owned by another uid is rejected with a PortPackagerError  *)
(* that names the path and the check that failed: not found (line 77),     *)
(* is a symlink (81), not a directory (83), wrong owner (79); a symlink is *)
(* reported as a symlink whoever owns it.                                  *)
(***************************************************************************)
ExpectedDirSite(info, uid) ==
    IF info.kind = "missing" THEN 77
    ELSE IF info.kind = "symlink" THEN 81
    ELSE IF info.kind # "dir" THEN 83
    ELSE IF info.owner # uid THEN 79
    ELSE 0

C3_UnsafeDirReported ==
    \A s \in Sessions :
        (Validated(s) /\ ExpectedDirSite(fs.info, sess[s].uid) # 0) =>
            /\ sess[s].err.kind = "PortPackagerError"
            /\ sess[s].err.site = ExpectedDirSite(fs.info, sess[s].uid)
            /\ sess[s].err.detail = sess[s].req.pkgdir


(***************************************************************************)
(* C4.  A version longer than 40 characters, or with a dot-split component *)
(* holding a character outside digits, dots, underscores and the marker,   *)
(* is rejected before any build step; when the checks before the version   *)
(* check pass, the error is one of the version errors of lines 108-114.    *)
(***************************************************************************)
VersionSites == {108, 111, 114}

HasForeignChar(version) ==
    \E i \in 1..Len(version) : version[i] \notin {"@", "1", ".", "_"}

ReachesVersionCheck(s) ==
    /\ DirOk(s)
    /\ re_portname(sess[s].req.port)
    /\ CheckVariants(sess[s].req) = NoError

C4_BadVersionRejected ==
    \A s \in Sessions :
        (/\ Validated(s)
         /\ Has(sess[s].req, "version")
         /\ \/ Len(sess[s].req.version) > MaxVersionLength
            \/ HasForeignChar(sess[s].req.version)) =>
            /\ sess[s].err # NoError
            /\ CallsOf(s) = <<>>
            /\ ReachesVersionCheck(s) => sess[s].err.site \in VersionSites

(***************************************************************************)
(* C5.  The leading marker of a version component is optional: a version   *)
(* of at most 40 characters whose components are digits and underscores    *)
(* only, such as 1.21, passes the version check.                           *)
(***************************************************************************)
IsPlainVersion(version) ==
    /\ Len(version) <= MaxVersionLength
    /\ \A i \in 1..Len(SplitOn(version, ".")) :
          LET comp == SplitOn(version, ".")[i]
          IN  /\ comp # <<>>
              /\ \A j \in 1..Len(comp) : comp[j] \in {"1", "_"}

C5_MarkerOptional ==
    \A s \in Sessions :
        (/\ Validated(s)
         /\ Has(sess[s].req, "version")
         /\ IsPlainVersion(sess[s].req.version)) =>
            sess[s].err.site \notin VersionSites

(***************************************************************************)
(* C6.  When variants is present and some entry is not an identifier, the  *)
(* request is rejected with "Invalid package variant"; when every entry is *)
(* an identifier, the variants check passes.                               *)
(***************************************************************************)
C6_BadVariantRejected ==
    \A s \in Sessions :
        (/\ Validated(s)
         /\ DirOk(s)
         /\ re_portname(sess[s].req.port)
         /\ Has(sess[s].req, "variants")) =>
            IF \E i \in 1..Len(sess[s].req.variants) :
                   ~IsIdentifier(sess[s].req.variants[i])
            THEN /\ sess[s].err.kind = "PortPackagerError"
                 /\ sess[s].err.msg = "Invalid package variant"
            ELSE sess[s].err.site # 102

(***************************************************************************)
(* C7.  The success path reaches Done: when the request passes validation, *)
(* the clean and the build exit 0 and the build left a file matching       *)
(* <port>-*.mpkg, package() returns <target_dir>/<that file>, and the file *)
(* is in the target directory, owned by the caller's uid and gid.          *)
(***************************************************************************)
ExitedZero(s, cmd) ==
    \E i \in 1..Len(log) : log[i].sid = s /\ log[i].cmd = cmd /\ log[i].rc = 0

BuiltFor(s) ==
    {w[2] : w \in {x \in work : x[1] = sess[s].req.port
                                  /\ FnmatchMpkg(x[2], sess[s].req.port)}}
        \cup {f.name : f \in {g \in fs.files : FnmatchMpkg(g.name, sess[s].req.port)}}

C7_SuccessReturnsOwnedPackage ==
    \A s \in Sessions :
        (/\ Ended(s)
         /\ sess[s].verified
         /\ ExitedZero(s, "clean --all")
         /\ ExitedZero(s, "mpkg")
         /\ BuiltFor(s) # {}) =>
            /\ sess[s].err = NoError
            /\ \E f \in fs.files :
                  /\ sess[s].result = sess[s].req.pkgdir \o <<"/">> \o f.name
                  /\ f.uid = sess[s].uid
                  /\ f.gid = sess[s].gid


(***************************************************************************)
(* C8.  Step ordering of one request: the phases are visited in the order  *)
(* Validating, Cleaning, Building, Locating, HandingOff, Done, a failure   *)
(* goes from any phase directly to Failed and nothing but cleanup follows  *)
(* it; the build is spawned only after the clean exited 0, the work        *)
(* directory is looked up only after the build exited 0, the rename is     *)
(* made only after an artifact was located; cleanup() has run exactly once *)
(* when the session has ended, and not before.                             *)
(***************************************************************************)
PhaseOrder == <<"Validating", "Cleaning", "Building", "Locating", "HandingOff", "Done">>

IsPrefix(a, b) == Len(a) <= Len(b) /\ SubSeq(b, 1, Len(a)) = a

OrderedPhases(ph) ==
    \/ IsPrefix(ph, PhaseOrder)
    \/ /\ Len(ph) >= 2
       /\ ph[Len(ph)] = "Failed"
       /\ IsPrefix(Front(ph), PhaseOrder)
       /\ ph[Len(ph) - 1] # "Done"

OrderedCalls(s) ==
    LET calls == CallsOf(s)
    IN  \A i \in 1..Len(calls) :
            /\ i = 1 => calls[i].cmd = "clean --all"
            /\ calls[i].cmd = "clean --all" => i = 1
            /\ calls[i].cmd = "mpkg" =>
                  i = 2 /\ calls[1].cmd = "clean --all" /\ calls[1].rc = 0
            /\ calls[i].cmd = "work" =>
                  \E j \in 1..(i - 1) : calls[j].cmd = "mpkg" /\ calls[j].rc = 0
            /\ calls[i].cmd = "rename" =>
                  /\ "HandingOff" \in {sess[s].phases[k] : k \in 1..Len(sess[s].phases)}
                  /\ \E j \in 1..(i - 1) : calls[j].cmd = "work"

C8_StepOrder ==
    \A s \in Sessions :
        /\ OrderedPhases(sess[s].phases)
        /\ OrderedCalls(s)
        /\ "Failed" \in {sess[s].phases[k] : k \in 1..Len(sess[s].phases)} =>
              sess[s].pc \in {"Cleanup", "Ended", "Closed"}
        /\ sess[s].pc = "Building" => sess[s].phases[Len(sess[s].phases)] = "Building"
        /\ sess[s].pc = "Locating" => sess[s].phases[Len(sess[s].phases)] = "Locating"
        /\ sess[s].cleanups = IF Ended(s) THEN 1 ELSE 0

\* a session that cleaned and built, failed while locating, and ended
C8_Witness ==
    \E s \in Sessions :
        /\ Ended(s)
        /\ sess[s].phases = <<"Validating", "Cleaning", "Building", "Locating", "Failed">>
        /\ Len(CallsOf(s)) = 2
        /\ sess[s].cleanups = 1

(***************************************************************************)
(* C9.  A build that exits non-zero fails the request with the stderr of   *)
(* the toolchain on one line, every run of whitespace collapsed to one     *)
(* space; nothing is handed off, no child process follows the build (no    *)
(* clean, in cleanup() or elsewhere), and the work directory of the port   *)
(* stays as the build left it.                                             *)
(***************************************************************************)
BuildFailed(s) ==
    \E i \in 1..Len(log) :
        log[i].sid = s /\ log[i].cmd = "mpkg" /\ log[i].rc \notin {0, -1}

NonSpace(t) == SelectSeq(t, LAMBDA c : c \notin {" ", "\n", "\t"})
WordCount(t) ==
    Cardinality({i \in 1..Len(t) :
                    /\ t[i] \notin {" ", "\n", "\t"}
                    /\ (i = 1 \/ t[i - 1] \in {" ", "\n", "\t"})})

\* d is raw with each run of whitespace collapsed to one space
IsCollapsed(d, raw) ==
    /\ \A i \in 1..Len(d) : d[i] \notin {"\n", "\t"}
    /\ \A i \in 1..Len(d) : d[i] = " " => (i > 1 /\ i < Len(d) /\ d[i + 1] # " ")
    /\ NonSpace(d) = NonSpace(raw)
    /\ WordCount(d) = WordCount(raw)

WorkDirOf(s) == {w \in work : w[1] = sess[s].req.port}

C9_State ==
    \A s \in Sessions :
        BuildFailed(s) =>
            /\ sess[s].pc \in {"Cleanup", "Ended", "Closed"}
            /\ sess[s].err.kind = "PortPackagerError"
            /\ sess[s].err.code # 0
            /\ IsCollapsed(sess[s].err.detail, sess[s].stderr)
            /\ sess[s].result = NoResult
            /\ fs.files = {}
            /\ CallsOf(s)[Len(CallsOf(s))].cmd = "mpkg"

C9_WorkDirKept ==
    \A s \in Sessions : BuildFailed(s) => WorkDirOf(s)' = WorkDirOf(s)

C9_FailedBuild == [](C9_State) /\ [][C9_WorkDirKept]_vars

\* a failed build with a stderr of several lines has ended, its log kept
C9_Witness ==
    \E s \in Sessions :
        /\ Ended(s)
        /\ BuildFailed(s)
        /\ sess[s].stderr = <<"e", "\n", "e">>
        /\ sess[s].err.detail = <<"e", " ", "e">>
        /\ WorkDirOf(s) = {<<sess[s].req.port, BuildLog>>}

(***************************************************************************)
(* C10.  Two sessions for one port name never interleave their toolchain   *)
(* steps: they are never both between the clean and the end of the handoff *)
(* or the failure, and in the order of the recorded calls no call of one   *)
(* falls between two calls of the other.                                   *)
(***************************************************************************)
InOrchestrator(s) == sess[s].pc \in {"Cleaning", "Building", "Locating"}

SamePort(s, t) == sess[s].req.port = sess[t].req.port

C10_NoInterleaving ==
    \A s \in Sessions : \A t \in Sessions \ {s} :
        SamePort(s, t) =>
            /\ ~(InOrchestrator(s) /\ InOrchestrator(t))
            /\ \A i \in 1..Len(log) : \A j \in i..Len(log) : \A k \in j..Len(log) :
                  ~(log[i].sid = s /\ log[j].sid = t /\ log[k].sid = s)

\* both sessions built the same port, one after the other
C10_Witness ==
    /\ SamePort("s1", "s2")
    /\ Len(CallsOf("s1")) = 2
    /\ Len(CallsOf("s2")) = 2
    /\ Ended("s1")
    /\ InOrchestrator("s2")


(***************************************************************************)
(* C11.  The caller never receives a path to a package it cannot own: a    *)
(* path is returned only after the rename and the chown both succeeded,    *)
(* and a session whose build succeeded but whose handoff did not complete  *)
(* ends as a build failure of the packager's own error kind, with no path. *)
(***************************************************************************)
Succeeded(s, cmd) ==
    \E i \in 1..Len(log) : log[i].sid = s /\ log[i].cmd = cmd /\ log[i].rc = 0

C11_PathOnlyWhenOwned ==
    \A s \in Sessions :
        /\ sess[s].result # NoResult =>
              /\ Succeeded(s, "rename")
              /\ Succeeded(s, "chown")
              /\ sess[s].err = NoError
        /\ (Ended(s) /\ ExitedZero(s, "mpkg") /\ BuiltFor(s) # {}
                /\ ~(Succeeded(s, "rename") /\ Succeeded(s, "chown"))) =>
              /\ sess[s].result = NoResult
              /\ sess[s].err.kind = "PortPackagerError"

(***************************************************************************)
(* C16.  After a successful build that left no file matching               *)
(* <port>-*.mpkg, the request ends in a failure of the packager's own      *)
(* error kind (could not locate built package), and nothing is moved into  *)
(* the target directory.                                                   *)
(***************************************************************************)
C16_MissingArtifactReported ==
    \A s \in Sessions :
        (Ended(s) /\ ExitedZero(s, "mpkg") /\ BuiltFor(s) = {}) =>
            /\ sess[s].err.kind = "PortPackagerError"
            /\ sess[s].result = NoResult
            /\ fs.files = {}

(***************************************************************************)
(* C17.  No option injection or path traversal through the toolchain       *)
(* arguments: in every child process of a verified request the port name,  *)
(* the version and each variant are list elements of their own, in that    *)
(* order, and none of them begins with '-' or holds a '/'.                 *)
(***************************************************************************)
SafeArgument(a) ==
    /\ a # <<>>
    /\ a[1] # "-"
    /\ \A i \in 1..Len(a) : a[i] # "/"

ExpectedArgs(s, cmd) ==
    IF cmd = "mpkg"
    THEN <<sess[s].req.port>>
            \o (IF "version" \in sess[s].req.keys THEN <<sess[s].req.version>> ELSE <<>>)
            \o (IF "variants" \in sess[s].req.keys THEN sess[s].req.variants ELSE <<>>)
    ELSE <<sess[s].req.port>>

C17_ArgumentsSafe ==
    \A i \in 1..Len(log) :
        log[i].cmd \in {"clean --all", "work", "mpkg"} =>
            /\ log[i].args = ExpectedArgs(log[i].sid, log[i].cmd)
            /\ \A k \in 1..Len(log[i].args) : SafeArgument(log[i].args[k])

\* a build was spawned with a port name, a version and two variants
C17_Witness ==
    \E i \in 1..Len(log) :
        /\ log[i].cmd = "mpkg"
        /\ Len(log[i].args) = 4
        /\ "version" \in sess[log[i].sid].req.keys


(***************************************************************************)
(* C12.  The identity of every ownership decision is the one the           *)
(* constructor was given, whatever the payload holds: the owner of the     *)
(* target directory is refused (line 79) exactly when it differs from the  *)
(* constructor's uid, and a file handed over in the target directory       *)
(* belongs to root (renamed, not yet chowned) or to the constructor's uid  *)
(* and gid.  With line 192 as it is no file is ever handed over.           *)
(***************************************************************************)
C12_IdentityFromTransport ==
    \A s \in Sessions :
        /\ (Validated(s) /\ fs.info.kind # "missing") =>
               ((sess[s].err.site = 79) <=> (fs.info.owner # sess[s].uid))
        /\ Started(s) =>
               \A f \in fs.files :
                  \/ f.uid = 0 /\ f.gid = 0
                  \/ \E t \in Sessions : f.uid = sess[t].uid /\ f.gid = sess[t].gid

\* the payload claims the uid that owns the directory, and the request is
\* still refused because the constructor's uid does not own it
C12_Witness ==
    \E s \in Sessions :
        /\ Validated(s)
        /\ Has(sess[s].req, "uid")
        /\ sess[s].req.uid = fs.info.owner
        /\ sess[s].req.uid # sess[s].uid
        /\ fs.info.kind = "dir"
        /\ sess[s].err.site = 79


(***************************************************************************)
(* C15.  A `port work` that fails, by a non-zero exit or by printing       *)
(* nothing, ends find_work_path() with the packager's own error and a      *)
(* message, and hands no path to the caller.                               *)
(***************************************************************************)
WorkFailed(oc) == oc.oserror \/ oc.rc # 0 \/ oc.out = <<>>

C15_WorkFailureReported ==
    (probe.pc = "done" /\ WorkFailed(probe.oc)) =>
        /\ probe.err.kind = "PortPackagerError"
        /\ probe.value = <<>>

(***************************************************************************)
(* C18.  When create_pkg() has built the package and stands before the     *)
(* rename of lines 192-195, the target directory still passes              *)
(* verify_dir_and_owner(): it exists, is a directory and no symbolic link, *)
(* and belongs to the caller.                                              *)
(***************************************************************************)
C18_DirStillSafeAtRename ==
    \A s \in Sessions : sess[s].pc = "Locating" => DirOk(s)

(***************************************************************************)
(* C13.  A reply with no OK: and no ERROR: prefix anywhere, the empty one  *)
(* of a dead server among them, makes send_request raise ProcessorError    *)
(* "No reply from server (crash?), check system logs"; a reply that starts *)
(* with OK: raises nothing.                                                *)
(***************************************************************************)
HasPrefix(reply) == \E i \in 1..Len(reply) : reply[i] \in {"OK:", "ERROR:"}

C13_UnrecognizedReplyReported ==
    /\ (cli.read /\ ~HasPrefix(cli.reply)) =>
           /\ cli.err.kind = "ProcessorError"
           /\ cli.err.detail = NoReplyMessage
    /\ (cli.read /\ cli.reply # <<>> /\ cli.reply[1] = "OK:") => cli.err = NoError

(***************************************************************************)
(* C14.  The client never waits for the reply while its peer waits for the *)
(* end of the request: when send_request blocks in read(), the write side  *)
(* of its socket is closed, or the peer is not one that still reads up to  *)
(* end-of-stream.                                                          *)
(***************************************************************************)
WriteSideOpen == cli.sock = "open"
PeerAwaitsEndOfStream == peer.pc = "Receiving" /\ peer.mode = "eof"

C14_NoMutualWait ==
    ~(cli.pc = "Reading" /\ WriteSideOpen /\ PeerAwaitsEndOfStream)

(***************************************************************************)
(* C19.  What the client sends holds a pkgdir that is absolute: the cache  *)
(* directory when the recipe gave none, the first existing candidate under *)
(* the cache directory, the recipe directory, then the parent recipes'     *)
(* directories when the recipe gave a relative one.  When no candidate     *)
(* exists package() raises "Can't find <relpath>" before it connects.  No  *)
(* other key of the request is changed.                                    *)
(***************************************************************************)
Sent == cli.sent # "none"
Prepared == cli.pc \notin {"Idle", "Start"}
GivenRelative == K_pkgdir \in DOMAIN cli.req0 /\ ~IsAbsolute(cli.req0[K_pkgdir])
CandidateIn(dir) == Normpath(Join(dir, cli.req0[K_pkgdir]))
ParentDirs == {Dirname(r) : r \in cli.env.parents}
NoCandidate ==
    \A d \in {CacheDir, RecipeDir} \cup ParentDirs : CandidateIn(d) \notin cli.exists

C19_SentPkgdirAbsolute ==
    /\ Sent =>
          /\ \E kv \in cli.wire : kv[1] = K_pkgdir /\ IsAbsolute(kv[2])
          /\ \A kv \in cli.wire : kv[1] \in DOMAIN cli.req0 \ {K_pkgdir} =>
                                     kv[2] = cli.req0[kv[1]]
          /\ K_pkgdir \notin DOMAIN cli.req0 => <<K_pkgdir, CacheDir>> \in cli.wire
          /\ GivenRelative =>
                \E kv \in cli.wire :
                   /\ kv[1] = K_pkgdir
                   /\ kv[2] = IF CandidateIn(CacheDir) \in cli.exists
                               THEN CandidateIn(CacheDir)
                               ELSE IF CandidateIn(RecipeDir) \in cli.exists
                               THEN CandidateIn(RecipeDir)
                               ELSE kv[2]
                   /\ kv[2] \in cli.exists
    /\ (Prepared /\ GivenRelative /\ NoCandidate) =>
          /\ cli.pc = "Raised"
          /\ cli.err.kind = "ProcessorError"
          /\ cli.err.msg = "Can't find %s"
          /\ cli.err.detail = cli.req0[K_pkgdir]
          /\ ~cli.reached /\ ~Sent /\ cli.disconnects = 0

(***************************************************************************)
(* C20.  A call of package() that reaches the connect step has run         *)
(* disconnect() exactly once when it returns or raises, and one that does  *)
(* not reach it never; env's pkg_path and summary are written only after   *)
(* an OK reply; after a call that raised, env holds no summary, whatever   *)
(* an earlier run left there.                                              *)
(***************************************************************************)
C20_State ==
    /\ cli.disconnects <= 1
    /\ cli.pc \in {"Returned", "Raised"} =>
          cli.disconnects = (IF cli.reached THEN 1 ELSE 0)
    /\ cli.pc = "Raised" => cli.env.summary = "none"
    /\ cli.pc = "Returned" =>
          cli.okReply /\ cli.env.summary = "new" /\ cli.env.pkg_path = cli.value

C20_EnvWrittenOnOk ==
    (\/ cli'.env.pkg_path # cli.env.pkg_path
     \/ cli'.env.summary = "new" /\ cli.env.summary # "new") => cli'.okReply

C20_Lifecycle == [](C20_State) /\ [][C20_EnvWrittenOnOk]_vars

\* an error reply, with a summary of an earlier run in env at the start
C20_Witness ==
    /\ cli.pc = "Raised"
    /\ cli.stale0
    /\ cli.reached /\ cli.read /\ ~cli.okReply
    /\ cli.disconnects = 1

====
